---- MODULE Spec2Model ----
(***************************************************************************)
(* Game_Guesser: the question evaluator (backend/questions.go), the        *)
(* session engine (backend/game_logic.go) and the HTTP session handlers    *)
(* of package guesser.                                                     *)
(*                                                                         *)
(* Go strings are modelled as sequences of one-character strings, so that  *)
(* case folding, trimming and integer parsing are computed character by    *)
(* character as the library functions compute them.                        *)
(***************************************************************************)
EXTENDS Integers, Sequences, FiniteSets, TLC

\* ------------------------------------------------------------------ bounds

\* Longest catalog a session is started over.
MaxGames == 3

\* Longest question history explored (ApplyQuestion itself has no limit).
MaxAsked == 2

\* Most sessions the HTTP server is asked to start.
MaxSessions == 1

\* Most HTTP requests served, concurrently or one after another.
MaxRequests == 2
MaxPeers == 2

\* ------------------------------------------------------- library functions

Range(s) == {s[i] : i \in 1..Len(s)}

UpperChars == <<"A", "B", "C", "D", "E", "F", "G", "H", "I", "J", "K", "L", "M",
                "N", "O", "P", "Q", "R", "S", "T", "U", "V", "W", "X", "Y", "Z">>

LowerChars == <<"a", "b", "c", "d", "e", "f", "g", "h", "i", "j", "k", "l", "m",
                "n", "o", "p", "q", "r", "s", "t", "u", "v", "w", "x", "y", "z">>

\* unicode.ToLower on one ASCII character.
LowerChar(c) ==
    IF \E i \in 1..Len(UpperChars) : UpperChars[i] = c
    THEN LowerChars[CHOOSE i \in 1..Len(UpperChars) : UpperChars[i] = c]
    ELSE c

\* strings.ToLower
ToLower(s) == [i \in 1..Len(s) |-> LowerChar(s[i])]

\* strings.EqualFold: equality under simple case folding (ASCII: A-Z ~ a-z).
EqualFold(a, b) ==
    /\ Len(a) = Len(b)
    /\ \A i \in 1..Len(a) : LowerChar(a[i]) = LowerChar(b[i])

WhiteSpace == {" ", "\t", "\n", "\r", "\f"}

RECURSIVE TrimLeft(_)
TrimLeft(s) ==
    IF Len(s) > 0 /\ s[1] \in WhiteSpace THEN TrimLeft(Tail(s)) ELSE s

RECURSIVE TrimRight(_)
TrimRight(s) ==
    IF Len(s) > 0 /\ s[Len(s)] \in WhiteSpace
    THEN TrimRight(SubSeq(s, 1, Len(s) - 1))
    ELSE s

\* strings.TrimSpace
TrimSpace(s) == TrimRight(TrimLeft(s))

Digits == <<"0", "1", "2", "3", "4", "5", "6", "7", "8", "9">>

IsDigit(c) == \E i \in 1..Len(Digits) : Digits[i] = c

DigitVal(c) == (CHOOSE i \in 1..Len(Digits) : Digits[i] = c) - 1

\* The digits of s after an optional sign.
AtoiBody(s) == IF Len(s) > 0 /\ s[1] \in {"+", "-"} THEN Tail(s) ELSE s

\* strconv.Atoi, err == nil: an optional sign and at least one decimal digit.
AtoiOk(s) ==
    /\ Len(AtoiBody(s)) > 0
    /\ \A i \in 1..Len(AtoiBody(s)) : IsDigit(AtoiBody(s)[i])

RECURSIVE DigitsVal(_)
DigitsVal(d) ==
    IF Len(d) = 0 THEN 0
    ELSE 10 * DigitsVal(SubSeq(d, 1, Len(d) - 1)) + DigitVal(d[Len(d)])

\* strconv.Atoi, the value (for strings AtoiOk accepts).
AtoiVal(s) ==
    IF Len(s) > 0 /\ s[1] = "-" THEN 0 - DigitsVal(AtoiBody(s))
    ELSE DigitsVal(AtoiBody(s))

\* ------------------------------------------------------------- the catalog

\* The zero value of struct Game.
ZeroGame ==
    [ID |-> 0, Name |-> <<>>, Year |-> 0,
     Platforms |-> <<>>, Genres |-> <<>>, MainGenre |-> <<>>,
     Perspective |-> <<>>, WorldType |-> <<>>, Camera |-> <<>>, Theme |-> <<>>,
     Tone |-> <<>>, Difficulty |-> <<>>, Replayability |-> <<>>,
     DeveloperBucket |-> <<>>, DeveloperRegion |-> <<>>,
     Franchise |-> <<>>, FranchiseEntry |-> <<>>,
     ESRB |-> <<>>, AgeRating |-> <<>>, ViolenceLevel |-> <<>>,
     VisualStyle |-> <<>>, CombatStyle |-> <<>>, StructureFeatures |-> <<>>,
     Mood |-> <<>>, Setting |-> <<>>, Monetization |-> <<>>,
     Multiplayer |-> FALSE, CoOp |-> FALSE, OnlineOnly |-> FALSE,
     MultiplayerMode |-> <<>>, ScoreBucket |-> <<>>]

\* Item records as LoadGamesJSON delivers them: the catalogs explored are the
\* prefixes of this list of at most MaxGames items, the empty one included.
GamePool ==
    << [ZeroGame EXCEPT
          !.ID = 1, !.Name = <<"A", "l", "p", "h", "a">>, !.Year = 2012,
          !.MainGenre = <<"R", "P", "G">>,
          !.Genres = << <<"R", "P", "G">>, <<"A", "c", "t", "i", "o", "n">> >>,
          !.Multiplayer = FALSE,
          !.AgeRating = <<"1", "8", "+">>,
          !.ScoreBucket = <<"9", "0", "+">>,
          !.Franchise = <<"S", "t", "a", "n", "d", "a", "l", "o", "n", "e", " ",
                          "/", " ", "O", "t", "h", "e", "r">>,
          !.FranchiseEntry = <<"U", "n", "k", "n", "o", "w", "n">>],
       [ZeroGame EXCEPT
          !.ID = 2, !.Name = <<"B", "e", "t", "a">>, !.Year = 2018,
          !.MainGenre = <<"S", "h", "o", "o", "t", "e", "r">>,
          !.Genres = << <<"S", "h", "o", "o", "t", "e", "r">> >>,
          !.Multiplayer = TRUE, !.CoOp = TRUE,
          !.AgeRating = <<"1", "6", "+">>,
          !.ScoreBucket = <<"8", "0", "-", "8", "9">>,
          !.Franchise = <<"H", "a", "l", "o">>,
          !.FranchiseEntry = <<"2">>],
       [ZeroGame EXCEPT
          !.ID = 5, !.Name = <<"G", "a", "m", "m", "a", " ", "R", "a", "y">>,
          !.Year = 2015,
          !.MainGenre = <<"r", "p", "g">>,
          !.Genres = << <<"I", "n", "d", "i", "e">>, <<"r", "p", "g">> >>,
          !.Multiplayer = TRUE,
          !.AgeRating = <<"7", "+">>,
          !.ScoreBucket = <<"U", "n", "k", "n", "o", "w", "n">>,
          !.Franchise = <<"Z", "e", "l", "d", "a">>,
          !.FranchiseEntry = <<"1">>],
       [ZeroGame EXCEPT
          !.ID = 9, !.Name = <<"D", "e", "l", "t", "a">>, !.Year = 2020,
          !.MainGenre = <<"A", "c", "t", "i", "o", "n">>,
          !.Genres = << <<"A", "c", "t", "i", "o", "n">> >>,
          !.Multiplayer = FALSE,
          !.AgeRating = <<"U", "n", "k", "n", "o", "w", "n">>,
          !.ScoreBucket = <<"7", "0", "-", "7", "9">>,
          !.Franchise = <<"Z", "e", "l", "d", "a">>,
          !.FranchiseEntry = <<"3">>],
       [ZeroGame EXCEPT
          !.ID = 12, !.Name = <<"E", "c", "h", "o">>, !.Year = 2010,
          !.MainGenre = <<"I", "n", "d", "i", "e">>,
          !.Genres = << <<"I", "n", "d", "i", "e">> >>,
          !.Multiplayer = TRUE, !.OnlineOnly = TRUE,
          !.AgeRating = <<"3", "+">>,
          !.ScoreBucket = <<"6", "0", "-", "6", "9">>,
          !.Franchise = <<"S", "t", "a", "n", "d", "a", "l", "o", "n", "e", " ",
                          "/", " ", "O", "t", "h", "e", "r">>,
          !.FranchiseEntry = <<>>],
       [ZeroGame EXCEPT
          !.ID = 15, !.Name = <<"F", "o", "x">>, !.Year = 2015,
          !.MainGenre = <<"R", "P", "G">>,
          !.Genres = << <<"R", "P", "G">> >>,
          !.Theme = <<"F", "a", "n", "t", "a", "s", "y">>,
          !.Perspective = <<"S", "i", "d", "e">>,
          !.AgeRating = <<"1", "2", "+">>,
          !.ScoreBucket = <<"7", "0", "-", "7", "9">>,
          !.Franchise = <<"S", "t", "a", "n", "d", "a", "l", "o", "n", "e", " ",
                          "/", " ", "O", "t", "h", "e", "r">>,
          !.FranchiseEntry = <<"2">>] >>

Catalogs == {SubSeq(GamePool, 1, n) : n \in 0..MaxGames}

\* NewGameIndex: ByID maps each id of the list to the last item carrying it.
NewGameIndex(games) ==
    [id \in {games[i].ID : i \in 1..Len(games)} |->
        games[CHOOSE i \in 1..Len(games) :
                 /\ games[i].ID = id
                 /\ \A j \in 1..Len(games) : games[j].ID = id => j <= i]]

\* FindGameByID, the ok result.
FindGameOk(idx, id) == id \in DOMAIN idx

\* FindGameByID, the game (the zero Game when the id is absent).
FindGameByID(idx, id) == IF id \in DOMAIN idx THEN idx[id] ELSE ZeroGame

\* ---------------------------------------------------- question evaluation

\* stringSliceContains: case-insensitive exact match against any element.
stringSliceContains(slice, value) ==
    \E i \in 1..Len(slice) : ToLower(slice[i]) = ToLower(value)

scoreBucketRank(bucket) ==
    CASE bucket = <<"6", "0", "-", "6", "9">> -> 1
      [] bucket = <<"7", "0", "-", "7", "9">> -> 2
      [] bucket = <<"8", "0", "-", "8", "9">> -> 3
      [] bucket = <<"9", "0", "+">> -> 4
      [] OTHER -> 0

ageRatingValue(age) ==
    CASE age = <<"3", "+">> -> 3
      [] age = <<"7", "+">> -> 7
      [] age = <<"1", "2", "+">> -> 12
      [] age = <<"1", "6", "+">> -> 16
      [] age = <<"1", "8", "+">> -> 18
      [] OTHER -> 0

getStringField(game, field) ==
    CASE field = "main_genre" -> game.MainGenre
      [] field = "theme" -> game.Theme
      [] field = "perspective" -> game.Perspective
      [] field = "world_type" -> game.WorldType
      [] field = "camera" -> game.Camera
      [] field = "esrb" -> game.ESRB
      [] field = "age_rating" -> game.AgeRating
      [] field = "violence_level" -> game.ViolenceLevel
      [] field = "developer_bucket" -> game.DeveloperBucket
      [] field = "developer_region" -> game.DeveloperRegion
      [] field = "franchise" -> game.Franchise
      [] field = "franchise_entry" -> game.FranchiseEntry
      [] field = "multiplayer_mode" -> game.MultiplayerMode
      [] field = "score_bucket" -> game.ScoreBucket
      [] OTHER -> <<>>

getStringSliceField(game, field) ==
    CASE field = "platforms" -> game.Platforms
      [] field = "genres" -> game.Genres
      [] field = "tone" -> game.Tone
      [] field = "mood" -> game.Mood
      [] field = "visual_style" -> game.VisualStyle
      [] field = "combat_style" -> game.CombatStyle
      [] field = "structure_features" -> game.StructureFeatures
      [] field = "setting" -> game.Setting
      [] field = "monetization" -> game.Monetization
      [] OTHER -> <<>>

getIntField(game, field) ==
    CASE field = "year" -> game.Year
      [] OTHER -> 0

getBoolField(game, field) ==
    CASE field = "multiplayer" -> game.Multiplayer
      [] field = "co_op" -> game.CoOp
      [] field = "online_only" -> game.OnlineOnly
      [] OTHER -> FALSE

StandaloneOther ==
    <<"S", "t", "a", "n", "d", "a", "l", "o", "n", "e", " ", "/", " ",
      "O", "t", "h", "e", "r">>

\* Mutation: the error of strconv.Atoi is ignored, the threshold being 0 then.
EvaluateQuestion_AtoiErrorIgnored(game, tmpl, value) ==
    CASE tmpl.Type = "bool" -> getBoolField(game, tmpl.Field)
      [] tmpl.Type = "enum_equals" ->
            EqualFold(getStringField(game, tmpl.Field), value)
      [] tmpl.Type = "enum_contains" ->
            stringSliceContains(getStringSliceField(game, tmpl.Field), value)
      [] tmpl.Type = "range_gt" ->
            getIntField(game, tmpl.Field) >
               (IF AtoiOk(value) THEN AtoiVal(value) ELSE 0)
      [] tmpl.Type = "range_lt" ->
            IF ~AtoiOk(value) THEN FALSE
            ELSE getIntField(game, tmpl.Field) < AtoiVal(value)
      [] tmpl.Type = "enum_ordered_min" ->
            IF scoreBucketRank(value) = 0 THEN FALSE
            ELSE scoreBucketRank(getStringField(game, tmpl.Field))
                    >= scoreBucketRank(value)
      [] tmpl.Type = "age_at_most" ->
            IF ageRatingValue(value) = 0 THEN FALSE
            ELSE IF ageRatingValue(game.AgeRating) = 0 THEN FALSE
            ELSE ageRatingValue(game.AgeRating) <= ageRatingValue(value)
      [] tmpl.Type = "custom_is_sequel" ->
            IF game.Franchise = StandaloneOther THEN FALSE
            ELSE IF game.FranchiseEntry = <<>>
                    \/ game.FranchiseEntry = <<"U", "n", "k", "n", "o", "w", "n">>
                 THEN FALSE
            ELSE IF game.FranchiseEntry = <<"1">> THEN FALSE
            ELSE TRUE
      [] OTHER -> FALSE

\* EvaluateQuestion returns TRUE for YES, FALSE for NO.
EvaluateQuestion(game, tmpl, value) ==
    CASE tmpl.Type = "bool" -> getBoolField(game, tmpl.Field)
      [] tmpl.Type = "enum_equals" ->
            EqualFold(getStringField(game, tmpl.Field), value)
      [] tmpl.Type = "enum_contains" ->
            stringSliceContains(getStringSliceField(game, tmpl.Field), value)
      [] tmpl.Type = "range_gt" ->
            IF ~AtoiOk(value) THEN FALSE
            ELSE getIntField(game, tmpl.Field) > AtoiVal(value)
      [] tmpl.Type = "range_lt" ->
            IF ~AtoiOk(value) THEN FALSE
            ELSE getIntField(game, tmpl.Field) < AtoiVal(value)
      [] tmpl.Type = "enum_ordered_min" ->
            IF scoreBucketRank(value) = 0 THEN FALSE
            ELSE scoreBucketRank(getStringField(game, tmpl.Field))
                    >= scoreBucketRank(value)
      [] tmpl.Type = "age_at_most" ->
            IF ageRatingValue(value) = 0 THEN FALSE
            ELSE IF ageRatingValue(game.AgeRating) = 0 THEN FALSE
            ELSE ageRatingValue(game.AgeRating) <= ageRatingValue(value)
      [] tmpl.Type = "custom_is_sequel" ->
            IF game.Franchise = StandaloneOther THEN FALSE
            ELSE IF game.FranchiseEntry = <<>>
                    \/ game.FranchiseEntry = <<"U", "n", "k", "n", "o", "w", "n">>
                 THEN FALSE
            ELSE IF game.FranchiseEntry = <<"1">> THEN FALSE
            ELSE TRUE
      [] OTHER -> FALSE

\* The zero value of struct QuestionTemplate.
ZeroTemplate ==
    [ID |-> "", Category |-> "", Label |-> "", Field |-> "", Type |-> ""]

\* The template list handed to ApplyQuestion: one template of each evaluation
\* type of EvaluateQuestion, and one of a type it does not know.
Templates ==
    << [ID |-> "is_multiplayer", Category |-> "Multiplayer",
        Label |-> "Is it multiplayer?", Field |-> "multiplayer", Type |-> "bool"],
       [ID |-> "main_genre", Category |-> "Main Genre",
        Label |-> "Is the main genre {value}?", Field |-> "main_genre",
        Type |-> "enum_equals"],
       [ID |-> "genre_includes", Category |-> "Genres",
        Label |-> "Do the genres include {value}?", Field |-> "genres",
        Type |-> "enum_contains"],
       [ID |-> "year_after", Category |-> "Release Year",
        Label |-> "Was it released after {value}?", Field |-> "year",
        Type |-> "range_gt"],
       [ID |-> "year_before", Category |-> "Release Year",
        Label |-> "Was it released before {value}?", Field |-> "year",
        Type |-> "range_lt"],
       [ID |-> "score_bucket_at_least", Category |-> "Score",
        Label |-> "Is the score at least {value}?", Field |-> "score_bucket",
        Type |-> "enum_ordered_min"],
       [ID |-> "age_at_most", Category |-> "Age Rating",
        Label |-> "Is the age rating at most {value}?", Field |-> "age_rating",
        Type |-> "age_at_most"],
       [ID |-> "is_sequel", Category |-> "Franchise",
        Label |-> "Is it a sequel?", Field |-> "franchise_entry",
        Type |-> "custom_is_sequel"],
       [ID |-> "difficulty", Category |-> "Difficulty",
        Label |-> "Is the difficulty {value}?", Field |-> "difficulty",
        Type |-> "enum"],
       [ID |-> "theme", Category |-> "Theme",
        Label |-> "Is the theme {value}?", Field |-> "theme",
        Type |-> "enum_equals"] >>

\* findTemplateByID, the ok result.
findTemplateOk(templates, id) == \E i \in 1..Len(templates) : templates[i].ID = id

\* findTemplateByID, the template: the first of the list with that id.
findTemplateByID(templates, id) ==
    IF findTemplateOk(templates, id)
    THEN templates[CHOOSE i \in 1..Len(templates) :
                      /\ templates[i].ID = id
                      /\ \A j \in 1..(i - 1) : templates[j].ID # id]
    ELSE ZeroTemplate

\* ----------------------------------------------------------- session engine

\* The fixed guess budget NewSession hands out.
InitialGuesses == 10

\* The zero value of struct SessionState.
ZeroSession ==
    [SecretID |-> 0, RemainingIDs |-> <<>>, Asked |-> <<>>, GuessesLeft |-> 0,
     Status |-> "", RevealGameName |-> <<>>]

\* Mutation: the secret is the position drawn, not the id at that position.
NewSession_PositionAsID(games, secretIndex) ==
    [SecretID |-> secretIndex + 1,
     RemainingIDs |-> [i \in 1..Len(games) |-> games[i].ID],
     Asked |-> <<>>,
     GuessesLeft |-> InitialGuesses,
     Status |-> "playing",
     RevealGameName |-> <<>>]

\* NewSession, with secretIndex the value rand.Intn(len(remaining)) returned.
NewSession(games, secretIndex) ==
    [SecretID |-> games[secretIndex + 1].ID,
     RemainingIDs |-> [i \in 1..Len(games) |-> games[i].ID],
     Asked |-> <<>>,
     GuessesLeft |-> InitialGuesses,
     Status |-> "playing",
     RevealGameName |-> <<>>]

\* The ids of a set in ascending order.
RECURSIVE SortedIDs(_)
SortedIDs(S) ==
    IF S = {} THEN <<>>
    ELSE LET m == CHOOSE x \in S : \A y \in S : x <= y
         IN  <<m>> \o SortedIDs(S \ {m})

\* Mutation: a question answered yes keeps the candidates as they are when
\* filtering would leave the secret alone.
FilterRemaining_NeverDownToOne(remaining, idx, tmpl, value, answer) ==
    LET kept == SelectSeq(remaining,
                   LAMBDA id : /\ FindGameOk(idx, id)
                               /\ EvaluateQuestion(FindGameByID(idx, id), tmpl, value)
                                     = answer)
    IN  IF Len(kept) = 1 /\ Len(remaining) > 1 THEN remaining ELSE kept

\* Mutation: the loop keeps every id of RemainingIDs that is in the index.
FilterRemaining_KeepsAll(remaining, idx, tmpl, value, answer) ==
    SelectSeq(remaining, LAMBDA id : FindGameOk(idx, id))

\* Mutation: the comparison inverted, gameAnswer != answer.
FilterRemaining_Inverted(remaining, idx, tmpl, value, answer) ==
    SelectSeq(remaining,
              LAMBDA id : /\ FindGameOk(idx, id)
                          /\ EvaluateQuestion(FindGameByID(idx, id), tmpl, value) # answer)

\* Mutation: candidates are filtered only when the answer is yes.
FilterRemaining_YesOnly(remaining, idx, tmpl, value, answer) ==
    IF answer
    THEN SelectSeq(remaining,
                   LAMBDA id : /\ FindGameOk(idx, id)
                               /\ EvaluateQuestion(FindGameByID(idx, id), tmpl, value))
    ELSE remaining

\* Mutation: the loop runs over every id of the index, not over RemainingIDs.
FilterRemaining_WholeIndex(remaining, idx, tmpl, value, answer) ==
    SelectSeq(SortedIDs(DOMAIN idx),
              LAMBDA id : EvaluateQuestion(FindGameByID(idx, id), tmpl, value) = answer)

\* Mutation: the loop stops one element short of the end of RemainingIDs.
FilterRemaining_SkipLast(remaining, idx, tmpl, value, answer) ==
    SelectSeq(SubSeq(remaining, 1, Len(remaining) - 1),
              LAMBDA id : /\ FindGameOk(idx, id)
                          /\ EvaluateQuestion(FindGameByID(idx, id), tmpl, value) = answer)

\* Mutation: an id that is not in the index is kept, as if the loop had no
\* continue.
FilterRemaining_KeepsMissing(remaining, idx, tmpl, value, answer) ==
    SelectSeq(remaining,
              LAMBDA id : \/ ~FindGameOk(idx, id)
                          \/ EvaluateQuestion(FindGameByID(idx, id), tmpl, value) = answer)

\* The loop of ApplyQuestion: the ids of remaining, in order, that are in the
\* index and whose game gives the same answer.
FilterRemaining(remaining, idx, tmpl, value, answer) ==
    SelectSeq(remaining,
              LAMBDA id : /\ FindGameOk(idx, id)
                          /\ EvaluateQuestion(FindGameByID(idx, id), tmpl, value) = answer)

\* Mutation: the status check at the top of ApplyQuestion is missing.
ApplyQuestion_NoStatusCheck(state, templates, idx, req) ==
    IF ~findTemplateOk(templates, req.TemplateID) THEN state
    ELSE IF ~FindGameOk(idx, state.SecretID) THEN state
    ELSE LET tmpl == findTemplateByID(templates, req.TemplateID)
             secretGame == FindGameByID(idx, state.SecretID)
             answer == EvaluateQuestion(secretGame, tmpl, req.Value)
             newRemaining ==
                 FilterRemaining(state.RemainingIDs, idx, tmpl, req.Value, answer)
             newAsked == [TemplateID |-> tmpl.ID, Label |-> tmpl.Label,
                          Value |-> req.Value, Answer |-> answer]
         IN  [state EXCEPT !.RemainingIDs = newRemaining,
                           !.Asked = Append(state.Asked, newAsked)]

\* Mutation: a question costs one guess.
ApplyQuestion_ChargesBudget(state, templates, idx, req) ==
    IF state.Status # "playing" THEN state
    ELSE IF ~findTemplateOk(templates, req.TemplateID) THEN state
    ELSE IF ~FindGameOk(idx, state.SecretID) THEN state
    ELSE LET tmpl == findTemplateByID(templates, req.TemplateID)
             secretGame == FindGameByID(idx, state.SecretID)
             answer == EvaluateQuestion(secretGame, tmpl, req.Value)
             newRemaining ==
                 FilterRemaining(state.RemainingIDs, idx, tmpl, req.Value, answer)
             newAsked == [TemplateID |-> tmpl.ID, Label |-> tmpl.Label,
                          Value |-> req.Value, Answer |-> answer]
         IN  [state EXCEPT !.RemainingIDs = newRemaining,
                           !.Asked = Append(state.Asked, newAsked),
                           !.GuessesLeft = state.GuessesLeft - 1]

\* Mutation: a template id already in the history is not recorded again.
ApplyQuestion_Dedup(state, templates, idx, req) ==
    IF state.Status # "playing" THEN state
    ELSE IF ~findTemplateOk(templates, req.TemplateID) THEN state
    ELSE IF ~FindGameOk(idx, state.SecretID) THEN state
    ELSE LET tmpl == findTemplateByID(templates, req.TemplateID)
             secretGame == FindGameByID(idx, state.SecretID)
             answer == EvaluateQuestion(secretGame, tmpl, req.Value)
             newRemaining ==
                 FilterRemaining(state.RemainingIDs, idx, tmpl, req.Value, answer)
             newAsked == [TemplateID |-> tmpl.ID, Label |-> tmpl.Label,
                          Value |-> req.Value, Answer |-> answer]
         IN  IF \E i \in 1..Len(state.Asked) : state.Asked[i].TemplateID = tmpl.ID
             THEN [state EXCEPT !.RemainingIDs = newRemaining]
             ELSE [state EXCEPT !.RemainingIDs = newRemaining,
                                !.Asked = Append(state.Asked, newAsked)]

\* Mutation: a request naming an unknown template is recorded in the history.
ApplyQuestion_RecordsUnknown(state, templates, idx, req) ==
    IF state.Status # "playing" THEN state
    ELSE IF ~findTemplateOk(templates, req.TemplateID)
    THEN [state EXCEPT !.Asked =
             Append(state.Asked,
                    [TemplateID |-> req.TemplateID, Label |-> ZeroTemplate.Label,
                     Value |-> req.Value, Answer |-> FALSE])]
    ELSE IF ~FindGameOk(idx, state.SecretID) THEN state
    ELSE LET tmpl == findTemplateByID(templates, req.TemplateID)
             secretGame == FindGameByID(idx, state.SecretID)
             answer == EvaluateQuestion(secretGame, tmpl, req.Value)
             newRemaining ==
                 FilterRemaining(state.RemainingIDs, idx, tmpl, req.Value, answer)
             newAsked == [TemplateID |-> tmpl.ID, Label |-> tmpl.Label,
                          Value |-> req.Value, Answer |-> answer]
         IN  [state EXCEPT !.RemainingIDs = newRemaining,
                           !.Asked = Append(state.Asked, newAsked)]

ApplyQuestion(state, templates, idx, req) ==
    IF state.Status # "playing" THEN state
    ELSE IF ~findTemplateOk(templates, req.TemplateID) THEN state
    ELSE IF ~FindGameOk(idx, state.SecretID) THEN state
    ELSE LET tmpl == findTemplateByID(templates, req.TemplateID)
             secretGame == FindGameByID(idx, state.SecretID)
             answer == EvaluateQuestion(secretGame, tmpl, req.Value)
             newRemaining ==
                 FilterRemaining(state.RemainingIDs, idx, tmpl, req.Value, answer)
             newAsked == [TemplateID |-> tmpl.ID, Label |-> tmpl.Label,
                          Value |-> req.Value, Answer |-> answer]
         IN  [state EXCEPT !.RemainingIDs = newRemaining,
                           !.Asked = Append(state.Asked, newAsked)]

NormalizeName(name) == ToLower(TrimSpace(name))

\* Mutation: the names are compared as typed, without NormalizeName.
IsCorrect_RawName(state, secret, req) ==
    IF req.GuessID # 0
    THEN req.GuessID = state.SecretID
    ELSE req.GuessName = secret.Name

\* isCorrect as ApplyGuess computes it, secret being the secret's game.
IsCorrect(state, secret, req) ==
    IF req.GuessID # 0
    THEN req.GuessID = state.SecretID
    ELSE NormalizeName(req.GuessName) = NormalizeName(secret.Name)

\* Mutation: an incorrect guess by identifier removes that id from the
\* candidates.
ApplyGuess_RemovesGuessed(state, idx, req) ==
    IF state.Status # "playing" THEN state
    ELSE IF ~FindGameOk(idx, state.SecretID) THEN state
    ELSE LET secret == FindGameByID(idx, state.SecretID)
             others == SelectSeq(state.RemainingIDs, LAMBDA id : id # req.GuessID)
         IN  IF IsCorrect(state, secret, req)
             THEN [state EXCEPT !.Status = "won",
                                !.RevealGameName = secret.Name]
             ELSE IF state.GuessesLeft - 1 <= 0
                  THEN [state EXCEPT !.GuessesLeft = state.GuessesLeft - 1,
                                     !.RemainingIDs = others,
                                     !.Status = "lost",
                                     !.RevealGameName = secret.Name]
                  ELSE [state EXCEPT !.GuessesLeft = state.GuessesLeft - 1,
                                     !.RemainingIDs = others]

\* Mutation: the name is revealed on a win only.
ApplyGuess_NoRevealOnLoss(state, idx, req) ==
    IF state.Status # "playing" THEN state
    ELSE IF ~FindGameOk(idx, state.SecretID) THEN state
    ELSE LET secret == FindGameByID(idx, state.SecretID)
         IN  IF IsCorrect(state, secret, req)
             THEN [state EXCEPT !.Status = "won",
                                !.RevealGameName = secret.Name]
             ELSE IF state.GuessesLeft - 1 <= 0
                  THEN [state EXCEPT !.GuessesLeft = state.GuessesLeft - 1,
                                     !.Status = "lost"]
                  ELSE [state EXCEPT !.GuessesLeft = state.GuessesLeft - 1]

\* Mutation: the session is lost below zero, GuessesLeft < 0.
ApplyGuess_LostBelowZero(state, idx, req) ==
    IF state.Status # "playing" THEN state
    ELSE IF ~FindGameOk(idx, state.SecretID) THEN state
    ELSE LET secret == FindGameByID(idx, state.SecretID)
         IN  IF IsCorrect(state, secret, req)
             THEN [state EXCEPT !.Status = "won",
                                !.RevealGameName = secret.Name]
             ELSE IF state.GuessesLeft - 1 < 0
                  THEN [state EXCEPT !.GuessesLeft = state.GuessesLeft - 1,
                                     !.Status = "lost",
                                     !.RevealGameName = secret.Name]
                  ELSE [state EXCEPT !.GuessesLeft = state.GuessesLeft - 1]

\* Mutation: ApplyGuess goes on with the zero Game when the secret is not in
\* the index.
ApplyGuess_NoSecretCheck(state, idx, req) ==
    IF state.Status # "playing" THEN state
    ELSE LET secret == FindGameByID(idx, state.SecretID)
         IN  IF IsCorrect(state, secret, req)
             THEN [state EXCEPT !.Status = "won",
                                !.RevealGameName = secret.Name]
             ELSE IF state.GuessesLeft - 1 <= 0
                  THEN [state EXCEPT !.GuessesLeft = state.GuessesLeft - 1,
                                     !.Status = "lost",
                                     !.RevealGameName = secret.Name]
                  ELSE [state EXCEPT !.GuessesLeft = state.GuessesLeft - 1]

\* Mutation: the status check at the top of ApplyGuess is missing.
ApplyGuess_NoStatusCheck(state, idx, req) ==
    IF ~FindGameOk(idx, state.SecretID) THEN state
    ELSE LET secret == FindGameByID(idx, state.SecretID)
         IN  IF IsCorrect(state, secret, req)
             THEN [state EXCEPT !.Status = "won",
                                !.RevealGameName = secret.Name]
             ELSE IF state.GuessesLeft - 1 <= 0
                  THEN [state EXCEPT !.GuessesLeft = state.GuessesLeft - 1,
                                     !.Status = "lost",
                                     !.RevealGameName = secret.Name]
                  ELSE [state EXCEPT !.GuessesLeft = state.GuessesLeft - 1]

\* Mutation: the session is lost when one guess is left, GuessesLeft <= 1.
ApplyGuess_LostEarly(state, idx, req) ==
    IF state.Status # "playing" THEN state
    ELSE IF ~FindGameOk(idx, state.SecretID) THEN state
    ELSE LET secret == FindGameByID(idx, state.SecretID)
         IN  IF IsCorrect(state, secret, req)
             THEN [state EXCEPT !.Status = "won",
                                !.RevealGameName = secret.Name]
             ELSE IF state.GuessesLeft - 1 <= 1
                  THEN [state EXCEPT !.GuessesLeft = state.GuessesLeft - 1,
                                     !.Status = "lost",
                                     !.RevealGameName = secret.Name]
                  ELSE [state EXCEPT !.GuessesLeft = state.GuessesLeft - 1]

\* Mutation: the guess is charged before it is judged.
ApplyGuess_ChargedFirst(state, idx, req) ==
    IF state.Status # "playing" THEN state
    ELSE IF ~FindGameOk(idx, state.SecretID) THEN state
    ELSE LET secret == FindGameByID(idx, state.SecretID)
         IN  IF IsCorrect(state, secret, req)
             THEN [state EXCEPT !.GuessesLeft = state.GuessesLeft - 1,
                                !.Status = "won",
                                !.RevealGameName = secret.Name]
             ELSE IF state.GuessesLeft - 1 <= 0
                  THEN [state EXCEPT !.GuessesLeft = state.GuessesLeft - 1,
                                     !.Status = "lost",
                                     !.RevealGameName = secret.Name]
                  ELSE [state EXCEPT !.GuessesLeft = state.GuessesLeft - 1]

\* Mutation: a guess with no identifier and a blank name is returned unjudged
\* and uncharged.
ApplyGuess_BlankIgnored(state, idx, req) ==
    IF state.Status # "playing" THEN state
    ELSE IF ~FindGameOk(idx, state.SecretID) THEN state
    ELSE IF req.GuessID = 0 /\ TrimSpace(req.GuessName) = <<>> THEN state
    ELSE LET secret == FindGameByID(idx, state.SecretID)
         IN  IF IsCorrect(state, secret, req)
             THEN [state EXCEPT !.Status = "won",
                                !.RevealGameName = secret.Name]
             ELSE IF state.GuessesLeft - 1 <= 0
                  THEN [state EXCEPT !.GuessesLeft = state.GuessesLeft - 1,
                                     !.Status = "lost",
                                     !.RevealGameName = secret.Name]
                  ELSE [state EXCEPT !.GuessesLeft = state.GuessesLeft - 1]

ApplyGuess(state, idx, req) ==
    IF state.Status # "playing" THEN state
    ELSE IF ~FindGameOk(idx, state.SecretID) THEN state
    ELSE LET secret == FindGameByID(idx, state.SecretID)
         IN  IF IsCorrect(state, secret, req)
             THEN [state EXCEPT !.Status = "won",
                                !.RevealGameName = secret.Name]
             ELSE IF state.GuessesLeft - 1 <= 0
                  THEN [state EXCEPT !.GuessesLeft = state.GuessesLeft - 1,
                                     !.Status = "lost",
                                     !.RevealGameName = secret.Name]
                  ELSE [state EXCEPT !.GuessesLeft = state.GuessesLeft - 1]

\* ------------------------------------------------------------------ inputs

\* QuestionRequest values submitted to ApplyQuestion.
AskRequests ==
    { [TemplateID |-> "is_multiplayer", Value |-> <<>>],
      [TemplateID |-> "main_genre", Value |-> <<"R", "P", "G">>],
      [TemplateID |-> "main_genre", Value |-> <<"s", "h", "o", "o", "t", "e", "r">>],
      [TemplateID |-> "genre_includes", Value |-> <<"A", "C", "T", "I", "O", "N">>],
      [TemplateID |-> "year_after", Value |-> <<"2", "0", "1", "2">>],
      [TemplateID |-> "year_after", Value |-> <<"a", "b", "c">>],
      [TemplateID |-> "score_bucket_at_least", Value |-> <<"8", "0", "-", "8", "9">>],
      [TemplateID |-> "is_sequel", Value |-> <<>>],
      [TemplateID |-> "no_such_template", Value |-> <<"R", "P", "G">>] }

\* GuessRequest values submitted to ApplyGuess.
GuessRequests ==
    [GuessID : {0, 1, 2, 99},
     GuessName : { <<>>,
                   <<" ", "A", "L", "P", "H", "A", "\t">>,
                   <<"b", "e", "t", "a">>,
                   <<"G", "a", "m", "m", "a", " ", "R", "a", "y">>,
                   <<"A", "l", "p", "h">> }]

\* ------------------------------------------------------------ state machine

VARIABLES
    games,          \* the item list the process loaded
    idx,            \* the GameIndex built from it
    phase,          \* "boot" before NewSession, then "running" or "panic"
    state,          \* the session's SessionState
    wrongGuesses,   \* history: incorrect guesses applied to the playing session
    store,          \* package guesser: the session store, session id -> Session
    reqs,           \* package guesser: the HTTP requests being served
    responses,      \* package guesser: the response bodies written so far
    eval            \* one evaluator call: its arguments and, once made, its result

engineVars == <<phase, state, wrongGuesses>>

httpVars == <<store, reqs, responses>>

vars == <<games, idx, phase, state, wrongGuesses, store, reqs, responses, eval>>

Init ==
    /\ games \in Catalogs
    /\ idx = NewGameIndex(games)
    /\ phase = "boot"
    /\ state = ZeroSession
    /\ wrongGuesses = 0
    /\ store = <<>>
    /\ reqs = <<>>
    /\ responses = {}
    /\ eval = <<>>

\* NewSession over a non-empty list.
StartSession ==
    /\ phase = "boot"
    /\ Len(games) > 0
    /\ \E secretIndex \in 0..(Len(games) - 1) :
          state' = NewSession(games, secretIndex)
    /\ phase' = "running"
    /\ UNCHANGED <<games, idx, wrongGuesses, httpVars, eval>>

\* NewSession over an empty list: rand.Intn(0) panics.
StartSessionEmpty ==
    /\ phase = "boot"
    /\ Len(games) = 0
    /\ phase' = "panic"
    /\ UNCHANGED <<games, idx, state, wrongGuesses, httpVars, eval>>

Ask ==
    /\ phase = "running"
    /\ Len(state.Asked) < MaxAsked
    /\ \E req \in AskRequests :
          state' = ApplyQuestion(state, Templates, idx, req)
    /\ UNCHANGED <<games, idx, phase, wrongGuesses, httpVars, eval>>

Guess ==
    /\ phase = "running"
    /\ \E req \in GuessRequests :
          /\ state' = ApplyGuess(state, idx, req)
          /\ wrongGuesses' =
                IF /\ state.Status = "playing"
                   /\ FindGameOk(idx, state.SecretID)
                   /\ ~IsCorrect(state, FindGameByID(idx, state.SecretID), req)
                THEN wrongGuesses + 1
                ELSE wrongGuesses
    /\ UNCHANGED <<games, idx, phase, httpVars, eval>>

Next == StartSession \/ StartSessionEmpty \/ Ask \/ Guess

Spec == Init /\ [][Next]_vars

\* ------------------------------------------------- session engine: claims

\* The ids of the catalog the session was started over.
CatalogIDs == {games[i].ID : i \in 1..Len(games)}

\* The game of the session's secret.
SecretGame == FindGameByID(idx, state.SecretID)

Playing == phase = "running" /\ state.Status = "playing"

\* C1: in a session started by NewSession over a catalog whose ids are all in
\* the index, the secret id is in RemainingIDs after every ApplyQuestion.
C1_SecretSurvives ==
    (phase = "running" /\ CatalogIDs \subseteq DOMAIN idx)
        => state.SecretID \in Range(state.RemainingIDs)

\* Two questions were accepted, candidates were removed, the secret is kept.
C1_Witness ==
    /\ phase = "running"
    /\ Len(state.Asked) = 2
    /\ Len(state.RemainingIDs) = 1
    /\ Len(games) = 3
    /\ state.RemainingIDs = <<state.SecretID>>

\* An id agrees with history entry q when evaluating q's template on q's value
\* for the id's game gives q's recorded answer.
AgreesWith(id, q) ==
    /\ findTemplateOk(Templates, q.TemplateID)
    /\ FindGameOk(idx, id)
    /\ EvaluateQuestion(FindGameByID(idx, id),
                        findTemplateByID(Templates, q.TemplateID),
                        q.Value) = q.Answer

\* C2: RemainingIDs is exactly the set of catalog ids whose evaluation agrees
\* with the recorded answer of every entry of the history Asked.
C2_CandidatesAreTheConsistentIDs ==
    phase = "running" =>
        Range(state.RemainingIDs) =
            {id \in CatalogIDs :
                \A k \in 1..Len(state.Asked) : AgreesWith(id, state.Asked[k])}

\* A history with a yes and a no answer that leaves two of three candidates.
C2_Witness ==
    /\ phase = "running"
    /\ Len(games) = 3
    /\ Len(state.Asked) = 2
    /\ state.Asked[1].Answer # state.Asked[2].Answer
    /\ Len(state.RemainingIDs) = 2

\* C3: every step leaves a candidate set that is a subset of the one before
\* it, so its size never grows and no removed id comes back.
C3_MonotoneNarrowing ==
    [][phase = "running" =>
          /\ Range(state'.RemainingIDs) \subseteq Range(state.RemainingIDs)
          /\ Len(state'.RemainingIDs) <= Len(state.RemainingIDs)]_vars

\* A session narrowed by its first question and again by its second.
C3_Witness ==
    /\ phase = "running"
    /\ Len(games) = 3
    /\ Len(state.Asked) = 2
    /\ Len(state.RemainingIDs) = 1
    /\ state.Asked[1].TemplateID # state.Asked[2].TemplateID
    /\ state.GuessesLeft < InitialGuesses

\* C4: an accepted question that repeats the (template, value) pair of the
\* question accepted just before it leaves the candidate set as it was.
C4_RepeatIsIdempotent ==
    [][(/\ Playing
        /\ Len(state.Asked) >= 1
        /\ Len(state'.Asked) = Len(state.Asked) + 1
        /\ state'.Asked[Len(state'.Asked)].TemplateID
              = state.Asked[Len(state.Asked)].TemplateID
        /\ state'.Asked[Len(state'.Asked)].Value
              = state.Asked[Len(state.Asked)].Value)
       => state'.RemainingIDs = state.RemainingIDs]_vars

\* The same narrowing question was asked twice in a row.
C4_Witness ==
    /\ phase = "running"
    /\ Len(state.Asked) = 2
    /\ state.Asked[1] = state.Asked[2]
    /\ Len(state.RemainingIDs) < Len(games)

\* C5: once the status is won or lost, no ApplyQuestion or ApplyGuess changes
\* any field of the state.
C5_TerminalStable ==
    [][state.Status \in {"won", "lost"} => state' = state]_vars

\* A lost session whose history still has room for a question.
C5_Witness ==
    /\ phase = "running"
    /\ state.Status = "lost"
    /\ Len(state.Asked) < MaxAsked

\* C6: the only status changes of a session are playing -> won and
\* playing -> lost; won and lost are never left.
C6_StatusChangesOnce ==
    [][(phase = "running" /\ state'.Status # state.Status)
          => /\ state.Status = "playing"
             /\ state'.Status \in {"won", "lost"}]_vars

\* A session won after some incorrect guesses.
C6_Witness ==
    /\ phase = "running"
    /\ state.Status = "won"
    /\ wrongGuesses > 0

\* A guess names the secret when its name equals the secret's name up to
\* letter case and surrounding white space.
NamesSecret(name) == EqualFold(TrimSpace(name), TrimSpace(SecretGame.Name))

\* C8 as stated: a guess carrying the secret's identifier, or the secret's
\* name up to case and surrounding white space, always wins.
C8_AsStated ==
    (Playing /\ FindGameOk(idx, state.SecretID)) =>
        \A req \in GuessRequests :
            (req.GuessID = state.SecretID \/ NamesSecret(req.GuessName))
                => ApplyGuess(state, idx, req).Status = "won"

\* C8 amended: a guess carrying the secret's (non-zero) identifier, or no
\* identifier (GuessID 0) and the secret's name up to case and surrounding
\* white space, always wins.
C8_GuessingTheSecretWins ==
    (Playing /\ FindGameOk(idx, state.SecretID)) =>
        \A req \in GuessRequests :
            (\/ (req.GuessID # 0 /\ req.GuessID = state.SecretID)
             \/ (req.GuessID = 0 /\ NamesSecret(req.GuessName)))
                => ApplyGuess(state, idx, req).Status = "won"

\* A session whose secret is named by a guess differing in case and white
\* space, won without an incorrect guess.
C8_Witness ==
    /\ phase = "running"
    /\ state.Status = "won"
    /\ wrongGuesses = 0
    /\ \E req \in GuessRequests :
          /\ req.GuessID = 0
          /\ req.GuessName # SecretGame.Name
          /\ NamesSecret(req.GuessName)

\* C9: after k < InitialGuesses incorrect guesses the session is not lost and
\* GuessesLeft is InitialGuesses - k; after the InitialGuesses-th incorrect
\* guess it is lost with the secret's name revealed; questions asked in
\* between change nothing of this.
C9_LostExactlyAfterTheLastGuess ==
    phase = "running" =>
        /\ wrongGuesses < InitialGuesses =>
              /\ state.Status # "lost"
              /\ state.GuessesLeft = InitialGuesses - wrongGuesses
              /\ (wrongGuesses > 0 /\ state.Status = "playing"
                     => state.RevealGameName = <<>>)
        /\ wrongGuesses >= InitialGuesses =>
              /\ wrongGuesses = InitialGuesses
              /\ state.Status = "lost"
              /\ state.GuessesLeft = 0
              /\ state.RevealGameName = SecretGame.Name

\* Lost after InitialGuesses incorrect guesses with questions in between.
C9_Witness ==
    /\ phase = "running"
    /\ state.Status = "lost"
    /\ wrongGuesses = InitialGuesses
    /\ Len(state.Asked) = 2

\* C10: a correct guess on a playing session sets the status to won and the
\* revealed name to the secret's name, and changes nothing else: GuessesLeft
\* is not decremented.
C10_CorrectGuessWinsUncharged ==
    (Playing /\ FindGameOk(idx, state.SecretID)) =>
        \A req \in GuessRequests :
            IsCorrect(state, SecretGame, req) =>
                ApplyGuess(state, idx, req) =
                    [state EXCEPT !.Status = "won",
                                  !.RevealGameName = SecretGame.Name]

\* Won on the last guess left, which the winning guess did not use up.
C10_Witness ==
    /\ phase = "running"
    /\ state.Status = "won"
    /\ state.GuessesLeft = 1
    /\ wrongGuesses = InitialGuesses - 1
    /\ state.RevealGameName = SecretGame.Name

\* ------------------------------------------- package guesser: the templates

\* Package guesser declares its own Game struct; it has the fields of the
\* backend's under these names: Developer for DeveloperBucket, Violence for
\* ViolenceLevel, Structure for StructureFeatures, Coop for CoOp and Score for
\* ScoreBucket. Its stringSliceContains, scoreBucketRank and ageRatingValue
\* are the same functions as the backend's.

\* DefaultTemplates: id, category and which of CheckString / CheckBool is set.
DefaultTemplates ==
    << [ID |-> "year_at_least", Category |-> "Release Year", Check |-> "string"],
       [ID |-> "year_at_most", Category |-> "Release Year", Check |-> "string"],
       [ID |-> "main_genre", Category |-> "Main Genre", Check |-> "string"],
       [ID |-> "genre_includes", Category |-> "Genres", Check |-> "string"],
       [ID |-> "platform_includes", Category |-> "Platforms", Check |-> "string"],
       [ID |-> "perspective", Category |-> "Perspective", Check |-> "string"],
       [ID |-> "world_type", Category |-> "World Type", Check |-> "string"],
       [ID |-> "camera", Category |-> "Camera", Check |-> "string"],
       [ID |-> "theme", Category |-> "Theme", Check |-> "string"],
       [ID |-> "tone", Category |-> "Tone", Check |-> "string"],
       [ID |-> "mood", Category |-> "Mood", Check |-> "string"],
       [ID |-> "setting", Category |-> "Setting", Check |-> "string"],
       [ID |-> "visual_style", Category |-> "Visual Style", Check |-> "string"],
       [ID |-> "combat_style", Category |-> "Combat Style", Check |-> "string"],
       [ID |-> "structure_feature", Category |-> "Structure Features",
        Check |-> "string"],
       [ID |-> "difficulty", Category |-> "Difficulty", Check |-> "string"],
       [ID |-> "replayability", Category |-> "Replayability", Check |-> "string"],
       [ID |-> "is_multiplayer", Category |-> "Multiplayer", Check |-> "bool"],
       [ID |-> "has_coop", Category |-> "Co-op", Check |-> "bool"],
       [ID |-> "is_online_only", Category |-> "Online-only", Check |-> "bool"],
       [ID |-> "age_at_least", Category |-> "Age Rating", Check |-> "string"],
       [ID |-> "esrb_category", Category |-> "ESRB", Check |-> "string"],
       [ID |-> "violence_level", Category |-> "Violence", Check |-> "string"],
       [ID |-> "score_bucket_at_least", Category |-> "Score", Check |-> "string"],
       [ID |-> "monetization", Category |-> "Monetization", Check |-> "string"],
       [ID |-> "is_sequel", Category |-> "Franchise", Check |-> "bool"],
       [ID |-> "has_franchise", Category |-> "Franchise", Check |-> "bool"] >>

\* Mutation: year_at_most compares with <, the year itself left out.
CheckString_StrictAtMost(id, g, v) ==
    CASE id = "year_at_least" -> IF ~AtoiOk(v) THEN FALSE ELSE g.Year >= AtoiVal(v)
      [] id = "year_at_most" -> IF ~AtoiOk(v) THEN FALSE ELSE g.Year < AtoiVal(v)
      [] id = "main_genre" -> g.MainGenre = v
      [] id = "genre_includes" -> stringSliceContains(g.Genres, v)
      [] id = "platform_includes" -> stringSliceContains(g.Platforms, v)
      [] id = "perspective" -> g.Perspective = v
      [] id = "world_type" -> g.WorldType = v
      [] id = "camera" -> g.Camera = v
      [] id = "theme" -> g.Theme = v
      [] id = "tone" -> stringSliceContains(g.Tone, v)
      [] id = "mood" -> stringSliceContains(g.Mood, v)
      [] id = "setting" -> stringSliceContains(g.Setting, v)
      [] id = "visual_style" -> stringSliceContains(g.VisualStyle, v)
      [] id = "combat_style" -> stringSliceContains(g.CombatStyle, v)
      [] id = "structure_feature" -> stringSliceContains(g.StructureFeatures, v)
      [] id = "difficulty" -> g.Difficulty = v
      [] id = "replayability" -> g.Replayability = v
      [] id = "age_at_least" -> ageRatingValue(g.AgeRating) >= ageRatingValue(v)
      [] id = "esrb_category" -> g.ESRB = v
      [] id = "violence_level" -> g.ViolenceLevel = v
      [] id = "score_bucket_at_least" ->
            scoreBucketRank(g.ScoreBucket) >= scoreBucketRank(v)
      [] id = "monetization" -> stringSliceContains(g.Monetization, v)

\* The CheckString closure of the template with this id.
CheckString(id, g, v) ==
    CASE id = "year_at_least" -> IF ~AtoiOk(v) THEN FALSE ELSE g.Year >= AtoiVal(v)
      [] id = "year_at_most" -> IF ~AtoiOk(v) THEN FALSE ELSE g.Year <= AtoiVal(v)
      [] id = "main_genre" -> g.MainGenre = v
      [] id = "genre_includes" -> stringSliceContains(g.Genres, v)
      [] id = "platform_includes" -> stringSliceContains(g.Platforms, v)
      [] id = "perspective" -> g.Perspective = v
      [] id = "world_type" -> g.WorldType = v
      [] id = "camera" -> g.Camera = v
      [] id = "theme" -> g.Theme = v
      [] id = "tone" -> stringSliceContains(g.Tone, v)
      [] id = "mood" -> stringSliceContains(g.Mood, v)
      [] id = "setting" -> stringSliceContains(g.Setting, v)
      [] id = "visual_style" -> stringSliceContains(g.VisualStyle, v)
      [] id = "combat_style" -> stringSliceContains(g.CombatStyle, v)
      [] id = "structure_feature" -> stringSliceContains(g.StructureFeatures, v)
      [] id = "difficulty" -> g.Difficulty = v
      [] id = "replayability" -> g.Replayability = v
      [] id = "age_at_least" -> ageRatingValue(g.AgeRating) >= ageRatingValue(v)
      [] id = "esrb_category" -> g.ESRB = v
      [] id = "violence_level" -> g.ViolenceLevel = v
      [] id = "score_bucket_at_least" ->
            scoreBucketRank(g.ScoreBucket) >= scoreBucketRank(v)
      [] id = "monetization" -> stringSliceContains(g.Monetization, v)

\* The CheckBool closure of the template with this id.
CheckBool(id, g) ==
    CASE id = "is_multiplayer" -> g.Multiplayer
      [] id = "has_coop" -> g.CoOp
      [] id = "is_online_only" -> g.OnlineOnly
      [] id = "is_sequel" ->
            /\ g.FranchiseEntry # <<>>
            /\ g.FranchiseEntry # <<"U", "n", "k", "n", "o", "w", "n">>
            /\ g.FranchiseEntry # <<"1">>
      [] id = "has_franchise" ->
            g.Franchise # <<>> /\ g.Franchise # StandaloneOther

\* --------------------------------- package guesser: session state and store

\* GameIndex.AllGameIDs as NewGameIndex of package guesser fills it.
AllGameIDs(list) == [i \in 1..Len(list) |-> list[i].ID]

\* NewSessionState: every id a candidate, the secret drawn among them.
NewSessionState(ids, secretIndex) ==
    [RemainingIDs |-> ids, SecretID |-> ids[secretIndex + 1]]

\* The answer of a template for a game: its CheckBool when set, else its
\* CheckString on the value.
TemplateAnswer(tmpl, g, v) ==
    IF tmpl.Check = "bool" THEN CheckBool(tmpl.ID, g) ELSE CheckString(tmpl.ID, g, v)

\* ApplyQuestion of package guesser: <<new state, answer>>.
GuesserApplyQuestion(st, tmpl, gameMap, option) ==
    IF st.SecretID \notin DOMAIN gameMap THEN <<st, FALSE>>
    ELSE LET answer == TemplateAnswer(tmpl, gameMap[st.SecretID], option)
         IN  << [st EXCEPT !.RemainingIDs =
                    SelectSeq(st.RemainingIDs,
                              LAMBDA id :
                                 /\ id \in DOMAIN gameMap
                                 /\ TemplateAnswer(tmpl, gameMap[id], option) = answer)],
                answer >>

\* store.create: the session is added under a fresh id (here its position).
StoreCreate(st, sessionState) == Append(st, [State |-> sessionState])

\* store.get, the ok result.
StoreHas(st, sessionID) == sessionID \in DOMAIN st

\* -------------------------------------------- package guesser: HTTP handlers

\* AskRequest bodies posted to /api/session/{id}/ask.
AskBodies ==
    { [QuestionTypeID |-> "main_genre", Option |-> <<"R", "P", "G">>],
      [QuestionTypeID |-> "is_multiplayer", Option |-> <<>>],
      [QuestionTypeID |-> "year_at_least", Option |-> <<"2", "0", "1", "8">>],
      [QuestionTypeID |-> "no_such_question", Option |-> <<>>] }

\* The template handleAsk finds for a questionTypeId (the loop of lines 140-146).
AskTemplateFound(templates, id) == \E i \in 1..Len(templates) : templates[i].ID = id

AskTemplate(templates, id) ==
    templates[CHOOSE i \in 1..Len(templates) :
                 /\ templates[i].ID = id
                 /\ \A j \in 1..(i - 1) : templates[j].ID # id]

\* GuessRequest bodies posted to /api/session/{id}/guess.
GuessBodies ==
    { [Guess |-> <<"a", "l", "p", "h", "a">>],
      [Guess |-> <<"B", "e", "t", "a">>],
      [Guess |-> <<>>] }

HttpInit ==
    /\ games \in Catalogs
    /\ Len(games) > 0
    /\ idx = NewGameIndex(games)
    /\ phase = "serving"
    /\ state = ZeroSession
    /\ wrongGuesses = 0
    /\ store = <<>>
    /\ reqs = <<>>
    /\ responses = {}
    /\ eval = <<>>

\* StartSessionHandler: POST /api/session/start. The response carries the
\* new session id, the two counts and the question types (the same static
\* list in every response, left out here).
StartSessionUpTo(maxSessions) ==
    /\ phase = "serving"
    /\ Len(store) < maxSessions
    /\ \E secretIndex \in 0..(Len(games) - 1) :
          LET sessionState == NewSessionState(AllGameIDs(games), secretIndex)
          IN  /\ store' = StoreCreate(store, sessionState)
              /\ responses' = responses \cup
                    {[kind |-> "start", sessionID |-> Len(store) + 1, status |-> 200,
                      body |-> [SessionID |-> Len(store) + 1,
                                DatasetSize |-> Cardinality(DOMAIN idx),
                                CandidatesCount |-> Len(sessionState.RemainingIDs)]]}
    /\ UNCHANGED <<games, idx, engineVars, reqs, eval>>

\* SessionHandler and handleAsk up to the call of ApplyQuestion on a copy of
\* session.State (line 153): an unknown session is answered 404, an unknown
\* questionTypeId 400, and neither touches the store.
AskCallOf(maxSessions, bodies) ==
    /\ phase = "serving"
    /\ Len(reqs) < MaxRequests
    /\ \E sessionID \in 1..maxSessions, body \in bodies :
          IF ~StoreHas(store, sessionID)
          THEN /\ reqs' = Append(reqs,
                     [kind |-> "ask", pc |-> "done", sessionID |-> sessionID,
                      body |-> body, status |-> 404, newState |-> <<>>,
                      answer |-> FALSE])
               /\ responses' = responses \cup
                     {[kind |-> "ask", sessionID |-> sessionID, status |-> 404,
                       body |-> <<>>]}
          ELSE IF ~AskTemplateFound(DefaultTemplates, body.QuestionTypeID)
          THEN /\ reqs' = Append(reqs,
                     [kind |-> "ask", pc |-> "done", sessionID |-> sessionID,
                      body |-> body, status |-> 400, newState |-> <<>>,
                      answer |-> FALSE])
               /\ responses' = responses \cup
                     {[kind |-> "ask", sessionID |-> sessionID, status |-> 400,
                       body |-> <<>>]}
          ELSE LET res == GuesserApplyQuestion(
                             store[sessionID].State,
                             AskTemplate(DefaultTemplates, body.QuestionTypeID),
                             idx, body.Option)
               IN  /\ reqs' = Append(reqs,
                         [kind |-> "ask", pc |-> "assign", sessionID |-> sessionID,
                          body |-> body, status |-> 0, newState |-> res[1],
                          answer |-> res[2]])
                   /\ UNCHANGED responses
    /\ UNCHANGED <<games, idx, engineVars, store, eval>>

\* Mutation: the sessions share one State, every session is assigned newState.
HandleAskAssign_SharedState ==
    /\ phase = "serving"
    /\ \E r \in DOMAIN reqs :
          /\ reqs[r].pc = "assign"
          /\ store' = [s \in DOMAIN store |-> [State |-> reqs[r].newState]]
          /\ reqs' = [reqs EXCEPT ![r].pc = "done", ![r].status = 200]
          /\ responses' = responses \cup
                {[kind |-> "ask", sessionID |-> reqs[r].sessionID, status |-> 200,
                  body |-> [Answer |-> reqs[r].answer,
                            CandidatesCount |-> Len(reqs[r].newState.RemainingIDs)]]}
    /\ UNCHANGED <<games, idx, engineVars, eval>>

\* handleAsk from the assignment session.State = newState (line 154) to the
\* response. No lock is held between the call and the assignment.
HandleAskAssign ==
    /\ phase = "serving"
    /\ \E r \in DOMAIN reqs :
          /\ reqs[r].pc = "assign"
          /\ store' = [store EXCEPT ![reqs[r].sessionID].State = reqs[r].newState]
          /\ reqs' = [reqs EXCEPT ![r].pc = "done", ![r].status = 200]
          /\ responses' = responses \cup
                {[kind |-> "ask", sessionID |-> reqs[r].sessionID, status |-> 200,
                  body |-> [Answer |-> reqs[r].answer,
                            CandidatesCount |-> Len(reqs[r].newState.RemainingIDs)]]}
    /\ UNCHANGED <<games, idx, engineVars, eval>>

\* Mutation: a correct guess settles the session, its candidates are cut down
\* to the secret.
GuessOf_SettlesSession(maxSessions, bodies) ==
    /\ phase = "serving"
    /\ Len(reqs) < MaxRequests
    /\ \E sessionID \in 1..maxSessions, body \in bodies :
          IF ~StoreHas(store, sessionID)
          THEN /\ reqs' = Append(reqs,
                     [kind |-> "guess", pc |-> "done", sessionID |-> sessionID,
                      body |-> body, status |-> 404, newState |-> <<>>,
                      answer |-> FALSE])
               /\ responses' = responses \cup
                     {[kind |-> "guess", sessionID |-> sessionID, status |-> 404,
                       body |-> <<>>]}
               /\ UNCHANGED store
          ELSE IF store[sessionID].State.SecretID \notin DOMAIN idx
          THEN /\ reqs' = Append(reqs,
                     [kind |-> "guess", pc |-> "done", sessionID |-> sessionID,
                      body |-> body, status |-> 500, newState |-> <<>>,
                      answer |-> FALSE])
               /\ responses' = responses \cup
                     {[kind |-> "guess", sessionID |-> sessionID, status |-> 500,
                       body |-> <<>>]}
               /\ UNCHANGED store
          ELSE LET secret == idx[store[sessionID].State.SecretID]
                   correct == EqualFold(body.Guess, secret.Name)
               IN  /\ reqs' = Append(reqs,
                         [kind |-> "guess", pc |-> "done", sessionID |-> sessionID,
                          body |-> body, status |-> 200, newState |-> <<>>,
                          answer |-> correct])
                   /\ responses' = responses \cup
                         {[kind |-> "guess", sessionID |-> sessionID, status |-> 200,
                           body |-> [Correct |-> correct,
                                     Game |-> [ID |-> secret.ID,
                                               Name |-> secret.Name,
                                               Year |-> secret.Year]]]}
                   /\ store' = IF correct
                               THEN [store EXCEPT ![sessionID].State.RemainingIDs =
                                                      <<secret.ID>>]
                               ELSE store
    /\ UNCHANGED <<games, idx, engineVars, eval>>

\* SessionHandler and handleGuess: the guess is compared with the secret's
\* name by strings.EqualFold and the secret's summary is written in the
\* response; session.State is read, never assigned.
GuessOf(maxSessions, bodies) ==
    /\ phase = "serving"
    /\ Len(reqs) < MaxRequests
    /\ \E sessionID \in 1..maxSessions, body \in bodies :
          IF ~StoreHas(store, sessionID)
          THEN /\ reqs' = Append(reqs,
                     [kind |-> "guess", pc |-> "done", sessionID |-> sessionID,
                      body |-> body, status |-> 404, newState |-> <<>>,
                      answer |-> FALSE])
               /\ responses' = responses \cup
                     {[kind |-> "guess", sessionID |-> sessionID, status |-> 404,
                       body |-> <<>>]}
          ELSE IF store[sessionID].State.SecretID \notin DOMAIN idx
          THEN /\ reqs' = Append(reqs,
                     [kind |-> "guess", pc |-> "done", sessionID |-> sessionID,
                      body |-> body, status |-> 500, newState |-> <<>>,
                      answer |-> FALSE])
               /\ responses' = responses \cup
                     {[kind |-> "guess", sessionID |-> sessionID, status |-> 500,
                       body |-> <<>>]}
          ELSE LET secret == idx[store[sessionID].State.SecretID]
                   correct == EqualFold(body.Guess, secret.Name)
               IN  /\ reqs' = Append(reqs,
                         [kind |-> "guess", pc |-> "done", sessionID |-> sessionID,
                          body |-> body, status |-> 200, newState |-> <<>>,
                          answer |-> correct])
                   /\ responses' = responses \cup
                         {[kind |-> "guess", sessionID |-> sessionID, status |-> 200,
                           body |-> [Correct |-> correct,
                                     Game |-> [ID |-> secret.ID,
                                               Name |-> secret.Name,
                                               Year |-> secret.Year]]]}
    /\ UNCHANGED <<games, idx, engineVars, store, eval>>

\* The handlers serving at most MaxSessions sessions, with the request bodies
\* of AskBodies and GuessBodies.
HandleStart == StartSessionUpTo(MaxSessions)

HandleAskCall == AskCallOf(MaxSessions, AskBodies)

HandleGuess == GuessOf(MaxSessions, GuessBodies)

HttpNext == HandleStart \/ HandleAskCall \/ HandleAskAssign \/ HandleGuess

SpecHttp == HttpInit /\ [][HttpNext]_vars

\* ------------------------------------ package guesser: several sessions

\* The server with up to MaxPeers sessions over the largest catalog, asked
\* the two questions that split it differently and sent one guess.
PeerAskBodies ==
    { [QuestionTypeID |-> "main_genre", Option |-> <<"R", "P", "G">>],
      [QuestionTypeID |-> "year_at_least", Option |-> <<"2", "0", "1", "8">>] }

PeerGuessBodies == { [Guess |-> <<"B", "e", "t", "a">>] }

PeerInit ==
    /\ games = SubSeq(GamePool, 1, MaxGames)
    /\ idx = NewGameIndex(games)
    /\ phase = "serving"
    /\ state = ZeroSession
    /\ wrongGuesses = 0
    /\ store = <<>>
    /\ reqs = <<>>
    /\ responses = {}
    /\ eval = <<>>

PeerStart == StartSessionUpTo(MaxPeers)

PeerAskCall == AskCallOf(MaxPeers, PeerAskBodies)

PeerGuess == GuessOf(MaxPeers, PeerGuessBodies)

PeerNext == PeerStart \/ PeerAskCall \/ HandleAskAssign \/ PeerGuess

SpecPeers == PeerInit /\ [][PeerNext]_vars

\* ---------------------------------------------------- HTTP handlers: claims

\* The questions of the asks answered 200 on a session, applied one after
\* another in the order given, starting from the state the session was created in.
RECURSIVE ApplyInOrder(_, _)
ApplyInOrder(st, order) ==
    IF Len(order) = 0 THEN st
    ELSE ApplyInOrder(
            GuesserApplyQuestion(
               st,
               AskTemplate(DefaultTemplates, reqs[Head(order)].body.QuestionTypeID),
               idx,
               reqs[Head(order)].body.Option)[1],
            Tail(order))

\* The orders in which the requests of a set can be served one at a time.
Orders(S) ==
    {f \in [1..Cardinality(S) -> S] :
        \A i, j \in 1..Cardinality(S) : f[i] = f[j] => i = j}

AcceptedAsks(sessionID) ==
    {r \in DOMAIN reqs :
        /\ reqs[r].kind = "ask"
        /\ reqs[r].sessionID = sessionID
        /\ reqs[r].status = 200}

\* C7: when the ask requests on a session have been answered, its candidate
\* set is the one that applying their questions one after another, in one of
\* the possible orders, gives: no request's filter is lost.
C7_AsksAreSerializable ==
    (\A r \in DOMAIN reqs : reqs[r].pc = "done") =>
        \A sessionID \in DOMAIN store :
            \E order \in Orders(AcceptedAsks(sessionID)) :
                store[sessionID].State =
                    ApplyInOrder(
                       [RemainingIDs |-> AllGameIDs(games),
                        SecretID |-> store[sessionID].State.SecretID],
                       order)

\* ------------------------------------- the engine called with another index

\* ApplyQuestion and ApplyGuess take the index as an argument of its own: the
\* caller may pass one built from a shorter list than the session was started
\* over, so that the session's secret is not in it.
InitStale ==
    /\ games \in Catalogs
    /\ \E n \in 0..Len(games) : idx = NewGameIndex(SubSeq(games, 1, n))
    /\ phase = "boot"
    /\ state = ZeroSession
    /\ wrongGuesses = 0
    /\ store = <<>>
    /\ reqs = <<>>
    /\ responses = {}
    /\ eval = <<>>

SpecStale == InitStale /\ [][Next]_vars

\* ------------------------------------------------------------ the evaluators

\* The value strings handed to the evaluators: numbers, strings that are not
\* numbers (the empty one included), score buckets, age labels, a genre, a
\* theme.
EvalValues ==
    { <<"2", "0", "1", "5">>, <<"-", "1">>, <<"a", "b", "c">>, <<>>,
      <<"2", "0", "x">>, <<"8", "0", "-", "8", "9">>, <<"6", "0", "-", "6", "9">>,
      <<"9", "0", "+">>, <<"g", "r", "e", "a", "t">>,
      <<"1", "6", "+">>, <<"3", "+">>, <<"U", "n", "k", "n", "o", "w", "n">>,
      <<"R", "P", "G">>, <<"f", "a", "n", "t", "a", "s", "y">> }

EvalInit ==
    /\ games = GamePool
    /\ idx = NewGameIndex(games)
    /\ phase = "eval"
    /\ state = ZeroSession
    /\ wrongGuesses = 0
    /\ store = <<>>
    /\ reqs = <<>>
    /\ responses = {}
    /\ eval = <<>>

\* One call of the backend's EvaluateQuestion(game, tmpl, value).
EvaluateBackend ==
    /\ phase = "eval"
    /\ eval = <<>>
    /\ \E i \in 1..Len(games), t \in 1..Len(Templates), value \in EvalValues :
          eval' = [impl |-> "backend", game |-> games[i],
                   TemplateID |-> Templates[t].ID, Type |-> Templates[t].Type,
                   value |-> value,
                   result |-> EvaluateQuestion(games[i], Templates[t], value)]
    /\ UNCHANGED <<games, idx, engineVars, httpVars>>

\* One call of a closure of package guesser's DefaultTemplates: CheckBool(g)
\* where the template sets it, CheckString(g, v) otherwise.
EvaluateGuesser ==
    /\ phase = "eval"
    /\ eval = <<>>
    /\ \E i \in 1..Len(games), t \in 1..Len(DefaultTemplates), value \in EvalValues :
          eval' = [impl |-> "guesser", game |-> games[i],
                   TemplateID |-> DefaultTemplates[t].ID,
                   Type |-> DefaultTemplates[t].Check,
                   value |-> value,
                   result |-> IF DefaultTemplates[t].Check = "bool"
                              THEN CheckBool(DefaultTemplates[t].ID, games[i])
                              ELSE CheckString(DefaultTemplates[t].ID, games[i], value)]
    /\ UNCHANGED <<games, idx, engineVars, httpVars>>

EvalNext == EvaluateBackend \/ EvaluateGuesser

SpecEval == EvalInit /\ [][EvalNext]_vars

\* ------------------------------------------------------------ both packages

\* The repository holds two programs, the engine of package backend and the
\* HTTP server of package guesser, and the evaluators both are built on: a
\* behaviour of the whole is a behaviour of one of them.
InitAll == Init \/ HttpInit \/ EvalInit

NextAll == Next \/ HttpNext \/ EvalNext

SpecAll == InitAll /\ [][NextAll]_vars

\* ------------------------------------------------- claims on both packages

\* The requests of AskRequests whose template id is not in the registry.
UnknownTemplateRequests ==
    {req \in AskRequests : ~findTemplateOk(Templates, req.TemplateID)}

\* The step appends an ask request that was answered with this status.
AskAnswered(status) ==
    /\ Len(reqs') = Len(reqs) + 1
    /\ reqs'[Len(reqs')].kind = "ask"
    /\ reqs'[Len(reqs')].status = status

\* C11: ApplyQuestion with a template id that is not in the registry returns
\* the state it was given, history and candidates included; and a step of the
\* ask handler that answers 400 for an unknown questionTypeId leaves the
\* session store as it was and has nothing left to assign.
C11_UnknownTemplateIsANoOp ==
    /\ [](Playing =>
            \A req \in UnknownTemplateRequests :
                ApplyQuestion(state, Templates, idx, req) = state)
    /\ [][AskAnswered(400) =>
            /\ store' = store
            /\ reqs'[Len(reqs')].pc = "done"]_vars

\* An existing session was asked an unknown question type, after one of its
\* questions had been answered.
C11_Witness ==
    \E r, q \in DOMAIN reqs :
        /\ reqs[r].kind = "ask"
        /\ reqs[r].status = 400
        /\ StoreHas(store, reqs[r].sessionID)
        /\ reqs[q].kind = "ask"
        /\ reqs[q].status = 200
        /\ q < r

\* ------------------------------------------- session engine: further claims

\* The requests of AskRequests whose template id is in the registry.
KnownTemplateRequests ==
    {req \in AskRequests : findTemplateOk(Templates, req.TemplateID)}

\* C12: on a playing session whose secret is in the catalog, ApplyQuestion
\* with a known template gives the history it was given followed by exactly
\* one entry, made of the template id, the value supplied and
\* EvaluateQuestion(secret, template, value); this for every request, whether
\* or not its template id is already in the history.
C12_OneEntryPerQuestion ==
    (Playing /\ FindGameOk(idx, state.SecretID)) =>
        \A req \in KnownTemplateRequests :
            \A asked \in {ApplyQuestion(state, Templates, idx, req).Asked} :
            LET last == asked[Len(asked)]
            IN  /\ Len(asked) = Len(state.Asked) + 1
                /\ SubSeq(asked, 1, Len(state.Asked)) = state.Asked
                /\ last.TemplateID = req.TemplateID
                /\ last.Value = req.Value
                /\ last.Answer =
                      EvaluateQuestion(SecretGame,
                                       findTemplateByID(Templates, req.TemplateID),
                                       req.Value)

\* The same template id was asked twice, with two values, and is in the
\* history twice.
C12_Witness ==
    /\ Playing
    /\ Len(state.Asked) = 2
    /\ state.Asked[1].TemplateID = state.Asked[2].TemplateID
    /\ state.Asked[1].Value # state.Asked[2].Value
    /\ state.Asked[1].Answer # state.Asked[2].Answer

\* C13: the state NewSession returns for a non-empty catalog has a secret
\* that is an id of the catalog, every id of the catalog as candidates, an
\* empty history, 10 guesses left, status playing and no revealed name.
C13_NewSessionResult ==
    [][(phase = "boot" /\ phase' = "running") =>
          /\ Len(games) > 0
          /\ state'.SecretID \in CatalogIDs
          /\ Range(state'.RemainingIDs) = CatalogIDs
          /\ Len(state'.RemainingIDs) = Len(games)
          /\ state'.Asked = <<>>
          /\ state'.GuessesLeft = 10
          /\ state'.Status = "playing"
          /\ state'.RevealGameName = <<>>]_vars

\* A session just started over three items, the last one drawn as secret.
C13_Witness ==
    /\ phase = "running"
    /\ Len(games) = 3
    /\ state = NewSession(games, 2)
    /\ state.SecretID = games[3].ID

\* C14: starting a session over an empty catalog does not crash the process:
\* the call returns, with an error or an empty-session marker as its result.
C14_EmptyCatalogDoesNotCrash ==
    [][(phase = "boot" /\ Len(games) = 0) => phase' # "panic"]_vars

\* C15: when the session's secret id is not in the index the call is given,
\* ApplyQuestion and ApplyGuess both return the state they were given: same
\* history, same candidates, same guesses left, same status.
C15_MissingSecretIsANoOp ==
    (phase = "running" /\ ~FindGameOk(idx, state.SecretID)) =>
        /\ \A req \in AskRequests : ApplyQuestion(state, Templates, idx, req) = state
        /\ \A req \in GuessRequests : ApplyGuess(state, idx, req) = state
        /\ state = NewSession(games, CHOOSE i \in 0..(Len(games) - 1) :
                                        games[i + 1].ID = state.SecretID)

\* A playing session over three items whose secret, the third, is not in the
\* index of the first two.
C15_Witness ==
    /\ Playing
    /\ Len(games) = 3
    /\ DOMAIN idx = {games[1].ID, games[2].ID}
    /\ state.SecretID = games[3].ID

\* The guess requests that carry no identifier and an empty or
\* whitespace-only name.
EmptyGuessRequests ==
    {req \in GuessRequests : req.GuessID = 0 /\ TrimSpace(req.GuessName) = <<>>}

\* C16: an empty guess submitted to a playing session changes nothing:
\* ApplyGuess returns the state it was given, guesses left and status included.
C16_EmptyGuessIsANoOp ==
    (Playing /\ FindGameOk(idx, state.SecretID)) =>
        \A req \in EmptyGuessRequests : ApplyGuess(state, idx, req) = state

\* ------------------------------------------- HTTP handlers: further claims

\* The secret item of a stored session.
SessionSecret(sessionID) == idx[store[sessionID].State.SecretID]

\* The response names a game, and it is this one.
Names(resp, game) ==
    /\ resp.kind = "guess"
    /\ resp.status = 200
    /\ (resp.body.Game.ID = game.ID \/ resp.body.Game.Name = game.Name)

\* C17: while a session is undecided no response sent for it carries the
\* secret item's id or name. Sessions of package guesser have no status and no
\* guess budget: a session is decided only by a correct guess, so a response
\* to a guess that was not correct must not name the secret.
C17_SecretNotExposedWhilePlaying ==
    \A resp \in responses :
        (resp.kind = "guess" /\ resp.status = 200 /\ ~resp.body.Correct) =>
            ~Names(resp, SessionSecret(resp.sessionID))

\* ------------------------------------------------------ evaluators: claims

\* The evaluator call recorded in eval is one of a numeric-threshold template.
NumericCall ==
    \/ eval.impl = "backend" /\ eval.Type \in {"range_gt", "range_lt"}
    \/ eval.impl = "guesser" /\ eval.TemplateID \in {"year_at_least", "year_at_most"}

\* The requests of AskRequests on a numeric-threshold template whose value
\* strconv.Atoi rejects.
UnparsableRequests ==
    {req \in KnownTemplateRequests :
        /\ findTemplateByID(Templates, req.TemplateID).Type \in {"range_gt", "range_lt"}
        /\ ~AtoiOk(req.Value)}

\* C18: for a numeric-threshold template and a value that is not an integer,
\* the empty string included, both evaluators answer FALSE for every item;
\* ApplyQuestion then records the answer FALSE and returns the candidates it
\* was given, and every such question in a history has the answer FALSE.
C18_UnparsableNumberIsNo ==
    /\ (phase = "eval" /\ eval # <<>> /\ NumericCall /\ ~AtoiOk(eval.value)) =>
           eval.result = FALSE
    /\ (Playing /\ FindGameOk(idx, state.SecretID)) =>
           \A req \in UnparsableRequests :
               LET next == ApplyQuestion(state, Templates, idx, req)
               IN  /\ next.RemainingIDs = state.RemainingIDs
                   /\ next.Asked[Len(next.Asked)].Answer = FALSE
    /\ phase = "running" =>
           \A i \in 1..Len(state.Asked) :
               (\E req \in UnparsableRequests :
                    /\ req.TemplateID = state.Asked[i].TemplateID
                    /\ req.Value = state.Asked[i].Value)
                  => state.Asked[i].Answer = FALSE

\* A session over three items was asked "released after abc?": the answer
\* recorded is FALSE and the three candidates are still there.
C18_Witness ==
    /\ Playing
    /\ Len(games) = 3
    /\ Len(state.Asked) = 1
    /\ state.Asked[1].TemplateID = "year_after"
    /\ ~AtoiOk(state.Asked[1].Value)
    /\ state.Asked[1].Answer = FALSE
    /\ Len(state.RemainingIDs) = 3

\* The evaluator call recorded in eval is one of the score-bucket question.
ScoreBucketCall ==
    \/ eval.impl = "backend" /\ eval.Type = "enum_ordered_min"
    \/ eval.impl = "guesser" /\ eval.TemplateID = "score_bucket_at_least"

\* C19: the score-bucket-at-least question is answered FALSE for every item
\* when the value is not one of the ranked labels (rank 0), and otherwise
\* TRUE exactly when the rank of the item's bucket, 0 for an unknown one, is
\* at least the rank of the value.
C19_ScoreBucketAtLeast ==
    (phase = "eval" /\ eval # <<>> /\ ScoreBucketCall) =>
        eval.result =
            IF scoreBucketRank(eval.value) = 0 THEN FALSE
            ELSE scoreBucketRank(eval.game.ScoreBucket) >= scoreBucketRank(eval.value)

\* The evaluator call recorded in eval is one of an age-rating comparison.
AgeCall ==
    \/ eval.impl = "backend" /\ eval.Type = "age_at_most"
    \/ eval.impl = "guesser" /\ eval.TemplateID = "age_at_least"

\* C20: an age-rating comparison is answered FALSE when the item's age rating
\* or the value is not one of the five age labels, and otherwise by comparing
\* the two ages: item <= value for age-at-most, item >= value for age-at-least.
C20_AgeComparison ==
    (phase = "eval" /\ eval # <<>> /\ AgeCall) =>
        eval.result =
            IF ageRatingValue(eval.game.AgeRating) = 0 \/ ageRatingValue(eval.value) = 0
            THEN FALSE
            ELSE IF eval.impl = "backend"
            THEN ageRatingValue(eval.game.AgeRating) <= ageRatingValue(eval.value)
            ELSE ageRatingValue(eval.game.AgeRating) >= ageRatingValue(eval.value)

\* The evaluator call recorded in eval is one of the is-sequel question.
SequelCall ==
    \/ eval.impl = "backend" /\ eval.Type = "custom_is_sequel"
    \/ eval.impl = "guesser" /\ eval.TemplateID = "is_sequel"

\* C21: the is-sequel question is answered FALSE for an item whose franchise
\* is "Standalone / Other" or whose franchise entry is empty, "Unknown" or
\* "1", and TRUE for every other item, whatever the value.
C21_IsSequel ==
    (phase = "eval" /\ eval # <<>> /\ SequelCall) =>
        eval.result =
            ~ \/ eval.game.Franchise = StandaloneOther
              \/ eval.game.FranchiseEntry = <<>>
              \/ eval.game.FranchiseEntry = <<"U", "n", "k", "n", "o", "w", "n">>
              \/ eval.game.FranchiseEntry = <<"1">>

\* The exact-match questions of package guesser and the item field of each.
ExactMatchFields ==
    [main_genre |-> "main_genre", perspective |-> "perspective",
     world_type |-> "world_type", camera |-> "camera", theme |-> "theme",
     esrb_category |-> "esrb", violence_level |-> "violence_level"]

\* The evaluator call recorded in eval is one of an exact-match question.
ExactMatchCall ==
    \/ eval.impl = "backend" /\ eval.Type = "enum_equals"
    \/ eval.impl = "guesser" /\ eval.TemplateID \in DOMAIN ExactMatchFields

\* The item field the exact-match call recorded in eval compares.
ExactMatchField ==
    IF eval.impl = "backend"
    THEN getStringField(eval.game, findTemplateByID(Templates, eval.TemplateID).Field)
    ELSE getStringField(eval.game, ExactMatchFields[eval.TemplateID])

\* C22: an exact-match categorical question is answered TRUE exactly when
\* the item's field equals the value up to letter case, so TRUE for a value
\* that differs from the field only in case.
C22_ExactMatchIgnoresCase ==
    (phase = "eval" /\ eval # <<>> /\ ExactMatchCall) =>
        eval.result = EqualFold(ExactMatchField, eval.value)

\* ------------------------------------------- several sessions: claims

\* The step completes request r, an ask on session s.
Completes(r, s) ==
    /\ r \in DOMAIN reqs
    /\ reqs[r].sessionID = s
    /\ reqs[r].pc = "assign"
    /\ reqs'[r].pc = "done"

\* C23: a step changes the state of a stored session only by completing an
\* ask addressed to that session, and no session is dropped: a request on one
\* session leaves the secret and candidates of every other session alone.
\* Every ask in progress can complete, and every stored session can be asked
\* or sent a guess, whatever requests are in progress on the other sessions.
C23_SessionsAreIndependent ==
    /\ [][/\ DOMAIN store \subseteq DOMAIN store'
          /\ \A s \in DOMAIN store :
                store'[s] # store[s] => \E r \in DOMAIN reqs : Completes(r, s)]_vars
    /\ [](\A r \in DOMAIN reqs :
             reqs[r].pc = "assign" =>
                 ENABLED (HandleAskAssign /\ reqs'[r].pc = "done"))
    /\ [](Len(reqs) < MaxRequests =>
             \A s \in DOMAIN store :
                 /\ ENABLED (PeerAskCall /\ reqs'[Len(reqs')].sessionID = s
                                         /\ reqs'[Len(reqs')].pc = "assign")
                 /\ ENABLED (PeerGuess /\ reqs'[Len(reqs')].sessionID = s
                                       /\ reqs'[Len(reqs')].status = 200))

\* Two sessions: an ask on the first has narrowed its candidates while an ask
\* on the second is still in progress, and the second has all its candidates.
C23_Witness ==
    /\ Len(store) = 2
    /\ Len(reqs) = 2
    /\ reqs[1].sessionID = 2 /\ reqs[1].pc = "assign"
    /\ reqs[2].sessionID = 1 /\ reqs[2].pc = "done" /\ reqs[2].status = 200
    /\ Len(store[1].State.RemainingIDs) < Len(games)
    /\ store[2].State.RemainingIDs = AllGameIDs(games)

\* ------------------------------------------- session engine: more claims

\* The catalog is one of two items whose main genres are "RPG" and "Shooter".
RpgShooterCatalog ==
    /\ Len(games) = 2
    /\ games[1].MainGenre = <<"R", "P", "G">>
    /\ games[2].MainGenre = <<"S", "h", "o", "o", "t", "e", "r">>

RpgQuestion == [TemplateID |-> "main_genre", Value |-> <<"R", "P", "G">>]

\* C24: over a catalog of an "RPG" item and a "Shooter" item, the main_genre
\* question with value "RPG" asked of a new session leaves one candidate, the
\* secret, whichever item the secret is; a session whose first question it
\* was has that one candidate.
C24_RpgOrShooter ==
    (Playing /\ RpgShooterCatalog) =>
        /\ state.Asked = <<>> =>
              ApplyQuestion(state, Templates, idx, RpgQuestion).RemainingIDs
                  = <<state.SecretID>>
        /\ (Len(state.Asked) = 1
               /\ state.Asked[1].TemplateID = RpgQuestion.TemplateID
               /\ state.Asked[1].Value = RpgQuestion.Value) =>
              state.RemainingIDs = <<state.SecretID>>

\* The secret is the Shooter item: the answer recorded is FALSE and the
\* Shooter item is the one candidate left.
C24_Witness ==
    /\ Playing
    /\ RpgShooterCatalog
    /\ state.SecretID = games[2].ID
    /\ Len(state.Asked) = 1
    /\ state.Asked[1].TemplateID = RpgQuestion.TemplateID
    /\ state.Asked[1].Value = RpgQuestion.Value
    /\ state.Asked[1].Answer = FALSE
    /\ state.RemainingIDs = <<games[2].ID>>

\* C27: ApplyQuestion returns a state with the SecretID, GuessesLeft, Status
\* and RevealGameName it was given, for every request and every session; and
\* a step that changes the status of a session is an ApplyGuess.
C27_QuestionsAreFree ==
    /\ [](phase = "running" =>
            \A req \in AskRequests :
               \A s \in {ApplyQuestion(state, Templates, idx, req)} :
                  /\ s.SecretID = state.SecretID
                  /\ s.GuessesLeft = state.GuessesLeft
                  /\ s.Status = state.Status
                  /\ s.RevealGameName = state.RevealGameName)
    /\ [][(phase = "running" /\ state'.Status # state.Status) =>
             \E req \in GuessRequests : state' = ApplyGuess(state, idx, req)]_vars

\* Still playing with seven guesses left after two questions and three
\* incorrect guesses.
C27_Witness ==
    /\ Playing
    /\ Len(state.Asked) = 2
    /\ wrongGuesses = 3
    /\ state.GuessesLeft = InitialGuesses - 3

\* C28: ApplyGuess returns a state with the SecretID, RemainingIDs and Asked
\* it was given, for every request and every session: an incorrect guess is
\* not recorded and removes no candidate, the guessed one included.
C28_GuessesKeepCandidates ==
    phase = "running" =>
        /\ \A req \in GuessRequests :
              \A s \in {ApplyGuess(state, idx, req)} :
                 /\ s.SecretID = state.SecretID
                 /\ s.RemainingIDs = state.RemainingIDs
                 /\ s.Asked = state.Asked
        /\ (state.Asked = <<>> /\ FindGameOk(idx, state.SecretID)) =>
              state.RemainingIDs = NewSession(games, 0).RemainingIDs

\* After incorrect guesses, with no question asked, the three items are
\* candidates still, the two that are not the secret included.
C28_Witness ==
    /\ Playing
    /\ Len(games) = 3
    /\ wrongGuesses = 2
    /\ state.Asked = <<>>
    /\ state.SecretID = games[3].ID
    /\ Range(state.RemainingIDs) = CatalogIDs

\* C29: RevealGameName is empty while the status is playing, and is the name
\* of the secret item when the status is won or lost.
C29_RevealedOnlyAtTheEnd ==
    phase = "running" =>
        /\ state.Status \in {"playing", "won", "lost"}
        /\ state.Status = "playing" => state.RevealGameName = <<>>
        /\ state.Status \in {"won", "lost"} =>
              /\ state.RevealGameName = SecretGame.Name
              /\ state.RevealGameName # <<>>

\* A session lost over three items, its secret's name revealed.
C29_Witness ==
    /\ phase = "running"
    /\ Len(games) = 3
    /\ state.Status = "lost"
    /\ state.RevealGameName = games[3].Name

\* C30: GuessesLeft is between 0 and 10; it is at least 1 while the status is
\* playing and when it is won, and 0 when it is lost; no step of a session
\* increases it.
C30_GuessBudget ==
    /\ [](phase = "running" =>
            /\ state.GuessesLeft \in 0..10
            /\ state.Status = "playing" => state.GuessesLeft >= 1
            /\ state.Status = "won" => state.GuessesLeft >= 1
            /\ state.Status = "lost" => state.GuessesLeft = 0)
    /\ [][phase = "running" => state'.GuessesLeft <= state.GuessesLeft]_vars

\* Won with one guess left, after a question.
C30_Witness ==
    /\ phase = "running"
    /\ state.Status = "won"
    /\ state.GuessesLeft = 1
    /\ Len(state.Asked) = 1

\* ----------------------------------------------- evaluators: more claims

\* The evaluator call recorded in eval is a year-threshold question with a
\* value that is an integer: "lower" for at-least / greater-than, "upper" for
\* at-most / less-than, "" for any other call.
YearCall ==
    IF eval = <<>> \/ ~AtoiOk(eval.value) THEN ""
    ELSE IF eval.impl = "guesser" /\ eval.TemplateID = "year_at_least" THEN "lower"
    ELSE IF eval.impl = "guesser" /\ eval.TemplateID = "year_at_most" THEN "upper"
    ELSE IF eval.impl = "backend" /\ eval.Type = "range_gt" THEN "lower"
    ELSE IF eval.impl = "backend" /\ eval.Type = "range_lt" THEN "upper"
    ELSE ""

QuestionPairs == {{q1, q2} : q1, q2 \in KnownTemplateRequests}

GuessStep ==
    /\ Len(reqs') = Len(reqs) + 1
    /\ reqs'[Len(reqs')].kind = "guess"

\* The session has been sent a guess that was compared with its secret.
GuessedAt(s) ==
    \E r \in DOMAIN reqs :
        reqs[r].kind = "guess" /\ reqs[r].sessionID = s /\ reqs[r].status = 200

\* C31: a step serving a guess, correct or not, leaves the store as it was,
\* so every session keeps its secret and its candidates; and a session that
\* was sent a guess can still be asked a question, which is then processed.
C31_GuessLeavesSessionUnchanged ==
    /\ [][GuessStep => store' = store]_vars
    /\ [](\A s \in DOMAIN store :
             (GuessedAt(s) /\ Len(reqs) < MaxRequests) =>
                 ENABLED (HandleAskCall /\ reqs'[Len(reqs')].sessionID = s
                                        /\ reqs'[Len(reqs')].pc = "assign"))

\* A session was sent a correct guess first and then asked a question, which
\* was answered and narrowed its candidates; the secret is still a candidate.
C31_Witness ==
    /\ phase = "serving"
    /\ Len(reqs) = 2
    /\ reqs[1].kind = "guess" /\ reqs[1].status = 200 /\ reqs[1].answer
    /\ reqs[2].kind = "ask" /\ reqs[2].pc = "done" /\ reqs[2].status = 200
    /\ reqs[2].sessionID = reqs[1].sessionID
    /\ LET st == store[reqs[1].sessionID].State
       IN  /\ Len(st.RemainingIDs) < Len(games)
           /\ st.SecretID \in Range(st.RemainingIDs)

\* ------------------------------ the engine called with another index: claims

\* C32: an accepted ApplyQuestion (playing session, known template, secret in
\* the index) drops every candidate id that is not in the index, whatever the
\* answer, keeps a candidate that is in the index exactly when its game
\* evaluates to the secret's answer, and adds no candidate.
C32_MissingCandidatesAreDropped ==
    (Playing /\ FindGameOk(idx, state.SecretID)) =>
        \A req \in KnownTemplateRequests :
            \A next \in {ApplyQuestion(state, Templates, idx, req)},
               tmpl \in {findTemplateByID(Templates, req.TemplateID)} :
            \A kept \in {Range(next.RemainingIDs)},
               answer \in {EvaluateQuestion(FindGameByID(idx, state.SecretID),
                                            tmpl, req.Value)} :
                /\ Len(next.Asked) = Len(state.Asked) + 1
                /\ kept \subseteq Range(state.RemainingIDs)
                /\ \A id \in Range(state.RemainingIDs) :
                      IF ~FindGameOk(idx, id)
                      THEN id \notin kept
                      ELSE id \in kept <=>
                              EvaluateQuestion(FindGameByID(idx, id), tmpl, req.Value)
                                 = answer

\* A playing session over a catalog longer than the index: its first question
\* was accepted and an item that is not in the index is no longer a
\* candidate, although it would have given the answer the secret gave.
C32_Witness ==
    /\ Playing
    /\ FindGameOk(idx, state.SecretID)
    /\ Len(state.Asked) = 1
    /\ \E i \in 1..Len(games) :
          /\ games[i].ID \notin DOMAIN idx
          /\ games[i].ID \notin Range(state.RemainingIDs)
          /\ EvaluateQuestion(games[i],
                              findTemplateByID(Templates, state.Asked[1].TemplateID),
                              state.Asked[1].Value) = state.Asked[1].Answer

\* ------------------------------------- the engine while guesses keep coming

\* A session over the largest catalog that is asked two questions and sent
\* four kinds of guess: a blank one, the first item by id, an id that no item
\* has, the second item by name.
GuessingAsks ==
    { [TemplateID |-> "main_genre", Value |-> <<"R", "P", "G">>],
      [TemplateID |-> "year_after", Value |-> <<"2", "0", "1", "2">>] }

GuessingGuesses ==
    { [GuessID |-> 0, GuessName |-> <<>>],
      [GuessID |-> 1, GuessName |-> <<>>],
      [GuessID |-> 99, GuessName |-> <<"b", "e", "t", "a">>],
      [GuessID |-> 0, GuessName |-> <<"b", "e", "t", "a">>] }

GuessingInit ==
    /\ games = SubSeq(GamePool, 1, MaxGames)
    /\ idx = NewGameIndex(games)
    /\ phase = "boot"
    /\ state = ZeroSession
    /\ wrongGuesses = 0
    /\ store = <<>>
    /\ reqs = <<>>
    /\ responses = {}
    /\ eval = <<>>

GuessingAsk ==
    /\ phase = "running"
    /\ Len(state.Asked) < MaxAsked
    /\ \E req \in GuessingAsks :
          state' = ApplyQuestion(state, Templates, idx, req)
    /\ UNCHANGED <<games, idx, phase, wrongGuesses, httpVars, eval>>

GuessingGuess ==
    /\ phase = "running"
    /\ \E req \in GuessingGuesses :
          /\ state' = ApplyGuess(state, idx, req)
          /\ wrongGuesses' =
                IF /\ state.Status = "playing"
                   /\ FindGameOk(idx, state.SecretID)
                   /\ ~IsCorrect(state, FindGameByID(idx, state.SecretID), req)
                THEN wrongGuesses + 1
                ELSE wrongGuesses
    /\ UNCHANGED <<games, idx, phase, httpVars, eval>>

GuessingNext == StartSession \/ GuessingAsk \/ GuessingGuess

\* Guesses keep being submitted: a guess that would change the session is not
\* put off for ever.
SpecGuessing == GuessingInit /\ [][GuessingNext]_vars /\ WF_vars(GuessingGuess)

\* The session has ended.
Ended == phase = "running" /\ state.Status \in {"won", "lost"}

\* The ApplyGuess calls made on the session while it was playing: the
\* incorrect ones and, when it is won, the correct one.
GuessCalls == wrongGuesses + (IF state.Status = "won" THEN 1 ELSE 0)

\* C33: on a playing session whose secret is in the catalog every ApplyGuess
\* returns a session that has ended or has one guess less; the guesses left
\* are 10 less the incorrect guesses made, a session is over after at most 10
\* calls, lost exactly at the 10th incorrect one; and with guesses that keep
\* being submitted a playing session eventually is won or lost.
C33_GuessingTerminates ==
    /\ []((Playing /\ FindGameOk(idx, state.SecretID)) =>
             \A req \in GuessRequests :
                 \A next \in {ApplyGuess(state, idx, req)} :
                     \/ next.Status \in {"won", "lost"}
                     \/ /\ next.Status = "playing"
                        /\ next.GuessesLeft = state.GuessesLeft - 1
                        /\ next.GuessesLeft >= 1)
    /\ [](phase = "running" =>
             /\ state.GuessesLeft = InitialGuesses - wrongGuesses
             /\ GuessCalls <= InitialGuesses
             /\ state.Status = "lost" <=> wrongGuesses = InitialGuesses)
    /\ (Playing ~> Ended)

\* A session lost at its 10th incorrect guess, a question asked on the way.
C33_Witness ==
    /\ Ended
    /\ state.Status = "lost"
    /\ wrongGuesses = InitialGuesses
    /\ GuessCalls = InitialGuesses
    /\ Len(state.Asked) = 1

====
